---------------------------- MODULE Spec2Model ----------------------------
(***************************************************************************)
(* A model of ClusterMemberStore::SQLiteDatabase (src/src/SQLiteDatabase   *)
(* .cpp): the schema cache, the schema-migration methods and the statement *)
(* helpers, running against a relational engine that is modelled by what   *)
(* it does with the statements the code sends it.                          *)
(*                                                                         *)
(* The engine holds a persistent catalog (schema "main", the database      *)
(* file), a per-connection temporary catalog (schema "temp") and a         *)
(* transaction flag.  A table is a record [cols, rows]: cols is the        *)
(* sequence of catalog columns [name, type, pk] (pk is the 1-based         *)
(* position of the column in the primary key, 0 when it is not part of it, *)
(* as PRAGMA table_info reports it), rows the sequence of rows in the      *)
(* engine's natural order, each row a sequence of values.                  *)
(***************************************************************************)
EXTENDS Integers, Sequences, FiniteSets, TLC

VARIABLES
    opened,     \* impl_->db holds a connection
    main,       \* the engine's persistent catalog: table name -> table
    temp,       \* the connection's temporary catalog: table name -> table
    inTxn,      \* the connection is inside BEGIN ... COMMIT
    tables,     \* impl_->tables, the schema cache DescribeTables returns
    call,       \* the last call made on the Database and what it reported
    statement,  \* the prepared statement the caller holds
    steps,      \* what each step of it returned since it was built or reset
    budget      \* the number of calls still to be made

vars == <<opened, main, temp, inTxn, tables, call, statement, steps, budget>>

-----------------------------------------------------------------------------
(* Bounds *)

MaxCols == 3
MaxRows == 2
MaxVal == 2
MaxCells == 4
MaxDefCols == 2
MaxCalls == 3
WideCalls == 2
SmallCols == 2
SmallRows == 1

TableNames == {"t", "t_"}
ColNames == {"a", "b", "c"}
DefColNames == {"a", "b"}
Keywords == {"order"}
Types == {"INTEGER", "TEXT"}
Values == 1..MaxVal
NULL == 0

-----------------------------------------------------------------------------
(* Sequence helpers *)

Range(s) == {s[i] : i \in DOMAIN s}

RECURSIVE SelectSeqBy(_, _)
\* the subsequence of s whose elements are in set keep, in order
SelectSeqBy(s, keep) ==
    IF s = <<>> THEN <<>>
    ELSE IF Head(s) \in keep THEN <<Head(s)>> \o SelectSeqBy(Tail(s), keep)
    ELSE SelectSeqBy(Tail(s), keep)

NoDup(s) == \A i, j \in DOMAIN s : s[i] = s[j] => i = j

Names(cols) == [i \in DOMAIN cols |-> cols[i].name]

IndexOf(s, x) == CHOOSE i \in DOMAIN s : s[i] = x

EmptyCatalog == [n \in {} |-> 0]

Remove(cat, name) == [n \in (DOMAIN cat) \ {name} |-> cat[n]]

Put(cat, name, table) ==
    [n \in (DOMAIN cat) \cup {name} |-> IF n = name THEN table ELSE cat[n]]

-----------------------------------------------------------------------------
(* The engine: what sqlite3_exec does with one statement.                  *)
(* A statement is a record [op, temp, name, cols, sel, src]: the parts of  *)
(* the SQL text the code formats.  cols are the column definitions of a    *)
(* CREATE TABLE or ADD COLUMN text ([name, type, isKey], isKey standing    *)
(* for the words PRIMARY KEY after the column), sel the column list of a   *)
(* SELECT, src the table after FROM or the new name after RENAME TO.       *)

\* A name spliced into a statement text unquoted reads as a name only when
\* it is a plain identifier: a keyword (or a name with a space) makes the
\* text a syntax error.
IsIdentifier(name) == name \notin Keywords

Stmt(op, tmp, name, cols, sel, src) ==
    [op |-> op, temp |-> tmp, name |-> name, cols |-> cols, sel |-> sel,
     src |-> src]

\* An unqualified table name resolves to the temporary schema first.
Resolve(db, name) ==
    IF name \in DOMAIN db.temp THEN "temp"
    ELSE IF name \in DOMAIN db.main THEN "main"
    ELSE "none"

Lookup(db, name) ==
    IF Resolve(db, name) = "temp" THEN db.temp[name] ELSE db.main[name]

Store(db, name, table) ==
    IF Resolve(db, name) = "temp"
    THEN [db EXCEPT !.temp = Put(db.temp, name, table)]
    ELSE [db EXCEPT !.main = Put(db.main, name, table)]

Ok(db) == [db |-> db, err |-> ""]
Fail(db, msg) == [db |-> db, err |-> msg]

\* the key of a row: its values at the primary-key columns, in column order
RECURSIVE KeyOf(_, _)
KeyOf(cols, row) ==
    IF cols = <<>> THEN <<>>
    ELSE (IF Head(cols).pk > 0 THEN <<Head(row)>> ELSE <<>>)
         \o KeyOf(Tail(cols), Tail(row))

HasKey(cols) == \E i \in DOMAIN cols : cols[i].pk > 0

\* A table whose primary key is one INTEGER column keeps its rows in the
\* order of that column (the column is the rowid); any other table keeps
\* them in insertion order.
RowidAlias(cols) ==
    /\ Cardinality({i \in DOMAIN cols : cols[i].pk > 0}) = 1
    /\ \E i \in DOMAIN cols : cols[i].pk > 0 /\ cols[i].type = "INTEGER"

RowidCol(cols) == CHOOSE i \in DOMAIN cols : cols[i].pk > 0

RECURSIVE InsertSorted(_, _, _)
InsertSorted(rows, row, k) ==
    IF rows = <<>> THEN <<row>>
    ELSE IF row[k] < Head(rows)[k] THEN <<row>> \o rows
    ELSE <<Head(rows)>> \o InsertSorted(Tail(rows), row, k)

\* An INTEGER PRIMARY KEY column given NULL takes the next free rowid.
NextRowid(rows, k) ==
    IF rows = <<>> THEN 1 ELSE rows[Len(rows)][k] + 1

PlaceRow(cols, rows, row) ==
    IF RowidAlias(cols)
    THEN LET k == RowidCol(cols)
             r == IF row[k] = NULL THEN [row EXCEPT ![k] = NextRowid(rows, k)]
                  ELSE row
         IN  InsertSorted(rows, r, k)
    ELSE Append(rows, row)

\* Two rows collide when their keys are equal and hold no NULL; a NULL in
\* a rowid column never collides, it is replaced.
UniqueOk(cols, rows, row) ==
    HasKey(cols) /\ NULL \notin Range(KeyOf(cols, row))
        => \A i \in DOMAIN rows : KeyOf(cols, rows[i]) # KeyOf(cols, row)

\* Insert the rows one after the other; ok is FALSE as soon as one of them
\* breaks the primary key (the statement then changes nothing).
RECURSIVE InsertAll(_, _, _)
InsertAll(cols, rows, new) ==
    IF new = <<>> THEN [ok |-> TRUE, rows |-> rows]
    ELSE IF ~UniqueOk(cols, rows, Head(new)) THEN [ok |-> FALSE, rows |-> <<>>]
    ELSE InsertAll(cols, PlaceRow(cols, rows, Head(new)), Tail(new))

CatalogCols(cols) ==
    [i \in DOMAIN cols |->
        [name |-> cols[i].name, type |-> cols[i].type,
         pk |-> IF cols[i].isKey THEN 1 ELSE 0]]

ExecBegin(db) ==
    IF db.inTxn THEN Fail(db, "cannot start a transaction within a transaction")
    ELSE Ok([db EXCEPT !.inTxn = TRUE])

ExecCommit(db) ==
    IF ~db.inTxn THEN Fail(db, "cannot commit - no transaction is active")
    ELSE Ok([db EXCEPT !.inTxn = FALSE])

ExecCreate(db, s) ==
    LET schema == IF s.temp THEN db.temp ELSE db.main
        table == [cols |-> CatalogCols(s.cols), rows |-> <<>>]
    IN  IF s.cols = <<>> THEN Fail(db, "syntax error")
        ELSE IF s.name \in DOMAIN schema THEN Fail(db, "table already exists")
        ELSE IF ~NoDup(Names(s.cols)) THEN Fail(db, "duplicate column name")
        ELSE IF Cardinality({i \in DOMAIN s.cols : s.cols[i].isKey}) > 1
            THEN Fail(db, "table has more than one primary key")
        ELSE IF s.temp THEN Ok([db EXCEPT !.temp = Put(db.temp, s.name, table)])
        ELSE Ok([db EXCEPT !.main = Put(db.main, s.name, table)])

ExecDrop(db, s) ==
    IF Resolve(db, s.name) = "temp"
        THEN Ok([db EXCEPT !.temp = Remove(db.temp, s.name)])
    ELSE IF Resolve(db, s.name) = "main"
        THEN Ok([db EXCEPT !.main = Remove(db.main, s.name)])
    ELSE Fail(db, "no such table")

ExecInsertSelect(db, s) ==
    IF s.sel = <<>> THEN Fail(db, "syntax error")
    ELSE IF Resolve(db, s.name) = "none" \/ Resolve(db, s.src) = "none"
        THEN Fail(db, "no such table")
    ELSE LET into == Lookup(db, s.name)
             from == Lookup(db, s.src)
             fromNames == Names(from.cols)
         IN  IF \E i \in DOMAIN s.sel : s.sel[i] \notin Range(fromNames)
                 THEN Fail(db, "no such column")
             ELSE IF Len(s.sel) # Len(into.cols)
                 THEN Fail(db, "table has a different number of columns")
             ELSE LET new == [r \in DOMAIN from.rows |->
                                 [i \in DOMAIN s.sel |->
                                     from.rows[r][IndexOf(fromNames, s.sel[i])]]]
                      ins == InsertAll(into.cols, into.rows, new)
                  IN  IF ~ins.ok THEN Fail(db, "UNIQUE constraint failed")
                      ELSE Ok(Store(db, s.name, [into EXCEPT !.rows = ins.rows]))

ExecRename(db, s) ==
    LET where == Resolve(db, s.name)
        schema == IF where = "temp" THEN db.temp ELSE db.main
    IN  IF where = "none" THEN Fail(db, "no such table")
        ELSE IF s.src \in DOMAIN schema
            THEN Fail(db, "there is already another table with this name")
        ELSE IF where = "temp"
            THEN Ok([db EXCEPT !.temp = Put(Remove(db.temp, s.name), s.src, schema[s.name])])
        ELSE Ok([db EXCEPT !.main = Put(Remove(db.main, s.name), s.src, schema[s.name])])

ExecAddColumn(db, s) ==
    IF Resolve(db, s.name) = "none" THEN Fail(db, "no such table")
    ELSE LET table == Lookup(db, s.name)
             col == s.cols[1]
         IN  IF col.isKey THEN Fail(db, "Cannot add a PRIMARY KEY column")
             ELSE IF col.name \in Range(Names(table.cols))
                 THEN Fail(db, "duplicate column name")
             ELSE Ok(Store(db, s.name,
                        [cols |-> table.cols \o CatalogCols(<<col>>),
                         rows |-> [r \in DOMAIN table.rows |->
                                      Append(table.rows[r], NULL)]]))

\* ExecuteStatement(db, statement): the new engine state and the message
\* returned, "" when the statement ran.
ExecuteStatement(db, s) ==
    CASE ~IsIdentifier(s.name) \/ ~IsIdentifier(s.src) -> Fail(db, "syntax error")
      [] s.op = "BEGIN" -> ExecBegin(db)
      [] s.op = "COMMIT" -> ExecCommit(db)
      [] s.op = "CREATE" -> ExecCreate(db, s)
      [] s.op = "DROP" -> ExecDrop(db, s)
      [] s.op = "INSERT_SELECT" -> ExecInsertSelect(db, s)
      [] s.op = "RENAME" -> ExecRename(db, s)
      [] s.op = "ADD_COLUMN" -> ExecAddColumn(db, s)

\* the loop made to stop at the first statement that fails
RECURSIVE ExecuteAllStopAtFailure(_, _, _)
ExecuteAllStopAtFailure(db, statements, errs) ==
    IF statements = <<>> THEN [db |-> db, errs |-> errs]
    ELSE LET r == ExecuteStatement(db, Head(statements))
         IN  IF r.err # "" THEN [db |-> r.db, errs |-> Append(errs, r.err)]
             ELSE ExecuteAllStopAtFailure(r.db, Tail(statements), Append(errs, r.err))

\* Run the statements in order, whatever each one returns, collecting the
\* messages: the loop that ends DestroyColumn.
RECURSIVE ExecuteAll(_, _, _)
ExecuteAll(db, statements, errs) ==
    IF statements = <<>> THEN [db |-> db, errs |-> errs]
    ELSE LET r == ExecuteStatement(db, Head(statements))
         IN  ExecuteAll(r.db, Tail(statements), Append(errs, r.err))

-----------------------------------------------------------------------------
(* Typed values.  A value held by the engine is a datum [sc, v]: its       *)
(* storage class and its content written as text ("1", "1.5", "x").  The   *)
(* numeric conversions of the engine are given on these texts.             *)

Datum(sc, v) == [sc |-> sc, v |-> v]

\* a char* that points at nothing
NullPointer == "NULL"

NullDatum == Datum("NULL", "")

\* the integer a text or a real number converts to (leading digits, the
\* fraction cut off; 0 when there are none)
IntPart(v) ==
    CASE v \in {"1", "1.0", "1.5"} -> "1"
      [] v \in {"2", "2.0", "2.5"} -> "2"
      [] OTHER -> "0"

\* the real number a text or an integer converts to
DoublePart(v) ==
    CASE v \in {"1", "1.0"} -> "1.0"
      [] v \in {"2", "2.0"} -> "2.0"
      [] v \in {"1.5", "2.5"} -> v
      [] OTHER -> "0.0"

IsIntegerLiteral(v) == v \in {"0", "1", "2"}
IsRealLiteral(v) == v \in {"0.0", "1.0", "1.5", "2.0", "2.5"}
IsIntegral(v) == v \in {"0.0", "1.0", "2.0"}

\* What a column of the declared type makes of a datum stored in it.  A
\* TEXT column turns a number into its text; an INTEGER column turns a text
\* that reads as a number into that number, an integer when the number has
\* no fraction, and a real number without fraction into an integer.
ApplyAffinity(type, d) ==
    IF type = "TEXT"
    THEN IF d.sc \in {"INTEGER", "REAL"} THEN Datum("TEXT", d.v) ELSE d
    ELSE IF d.sc = "TEXT" /\ IsIntegerLiteral(d.v) THEN Datum("INTEGER", d.v)
    ELSE IF d.sc = "TEXT" /\ IsRealLiteral(d.v)
        THEN IF IsIntegral(d.v) THEN Datum("INTEGER", IntPart(d.v))
             ELSE Datum("REAL", d.v)
    ELSE IF d.sc = "REAL" /\ IsIntegral(d.v) THEN Datum("INTEGER", IntPart(d.v))
    ELSE d

\* sqlite3_column_type(...) == SQLITE_NULL
Sqlite3ColumnIsNull(d) == d.sc = "NULL"

\* sqlite3_column_text: a null pointer for NULL, else the content as text
Sqlite3ColumnText(d) == IF d.sc = "NULL" THEN NullPointer ELSE d.v

\* sqlite3_column_int: 0 for NULL, else the content as an integer
Sqlite3ColumnInt(d) ==
    IF d.sc = "NULL" THEN "0" ELSE IF d.sc = "INTEGER" THEN d.v ELSE IntPart(d.v)

\* sqlite3_column_double: 0.0 for NULL, else the content as a real number
Sqlite3ColumnDouble(d) ==
    IF d.sc = "NULL" THEN "0.0" ELSE IF d.sc = "REAL" THEN d.v ELSE DoublePart(d.v)

-----------------------------------------------------------------------------
(* Prepared statements.  The text of a query is a record [op, name, row]:  *)
(* "TABLE_NAMES" is SELECT name FROM SQLITE_MASTER WHERE TYPE='table',     *)
(* "TABLE_INFO" is PRAGMA table_info(name), "SELECT" is SELECT * FROM      *)
(* name, "INSERT" is INSERT INTO name VALUES (row), "INSERT_PARAMS" is     *)
(* INSERT INTO name VALUES (?, ..., ?) with one placeholder per column.    *)
(* A compiled statement is a record [null, sql, state, rows, pos, bound]:  *)
(* state is "ready" before the first step and after a reset, "row" while   *)
(* it is on a row, "done" or "error" once a step has ended it; rows are    *)
(* the rows of the run in progress and pos the number of them already      *)
(* returned; bound holds the datum at each placeholder, counted from 1.    *)

Sql(op, name, row) == [op |-> op, name |-> name, row |-> row]

RECURSIVE SetToSeq(_)
SetToSeq(S) ==
    IF S = {} THEN <<>>
    ELSE LET x == CHOOSE y \in S : TRUE IN <<x>> \o SetToSeq(S \ {x})

\* one row per table of the persistent catalog
TableNameRows(db) == [i \in DOMAIN SetToSeq(DOMAIN db.main) |->
                         <<SetToSeq(DOMAIN db.main)[i]>>]

\* one row <<cid, name, type, notnull, dflt_value, pk>> per column of the
\* table the name resolves to
TableInfoRows(db, name) ==
    IF Resolve(db, name) = "none" THEN <<>>
    ELSE LET cols == Lookup(db, name).cols
         IN  [i \in DOMAIN cols |->
                 <<i - 1, cols[i].name, cols[i].type, 0, NULL, cols[i].pk>>]

QueryRows(db, sql) ==
    CASE sql.op = "TABLE_NAMES" -> TableNameRows(db)
      [] sql.op = "TABLE_INFO" -> TableInfoRows(db, sql.name)
      [] sql.op = "SELECT" -> Lookup(db, sql.name).rows
      [] OTHER -> <<>>

\* sqlite3_prepare_v2 accepts the text when the name spliced into it is a
\* plain identifier and, for SELECT and INSERT, names a table with as
\* many columns as the row has values.
Compiles(db, sql) ==
    CASE sql.op = "TABLE_NAMES" -> TRUE
      [] sql.op = "TABLE_INFO" -> IsIdentifier(sql.name)
      [] sql.op = "SELECT" ->
            IsIdentifier(sql.name) /\ Resolve(db, sql.name) # "none"
      [] sql.op = "INSERT" ->
            /\ IsIdentifier(sql.name)
            /\ Resolve(db, sql.name) # "none"
            /\ Len(Lookup(db, sql.name).cols) = Len(sql.row)
      [] sql.op = "INSERT_PARAMS" ->
            IsIdentifier(sql.name) /\ Resolve(db, sql.name) # "none"
      [] OTHER -> FALSE

\* the message sqlite3_errmsg holds after sqlite3_prepare_v2 on the text,
\* "" when the text compiled
CompileError(db, sql) ==
    IF Compiles(db, sql) THEN ""
    ELSE IF sql.op \notin {"TABLE_INFO", "SELECT", "INSERT", "INSERT_PARAMS"} \/ ~IsIdentifier(sql.name)
        THEN "syntax error"
    ELSE IF Resolve(db, sql.name) = "none" THEN "no such table"
    ELSE "table has a different number of columns"

NullStatement ==
    [null |-> TRUE, sql |-> Sql("", "", <<>>), state |-> "ready", rows |-> <<>>,
     pos |-> 0, bound |-> <<>>]

\* the placeholders of a freshly compiled statement: all unbound, that is NULL
Placeholders(db, sql) ==
    IF sql.op = "INSERT_PARAMS"
    THEN [k \in DOMAIN Lookup(db, sql.name).cols |-> NullDatum]
    ELSE <<>>

\* BuildStatement(db, statement): the compiled statement, or nullptr
BuildStatement(db, sql) ==
    IF Compiles(db, sql)
    THEN [null |-> FALSE, sql |-> sql, state |-> "ready", rows |-> <<>>, pos |-> 0,
          bound |-> Placeholders(db, sql)]
    ELSE NullStatement

\* What BuildStatement hands its caller besides the statement: on a compile
\* failure the message is read into a local (errmsg) and nullptr is
\* returned, the message with no way out.
BuildStatementError(db, sql) ==
    LET errmsg == CompileError(db, sql) IN ""

\* the row an INSERT adds: its literal values, or the datum bound at each
\* placeholder as the column it goes to stores it
InsertedRow(cols, stmt) ==
    IF stmt.sql.op = "INSERT_PARAMS"
    THEN [k \in DOMAIN cols |-> ApplyAffinity(cols[k].type, stmt.bound[k])]
    ELSE stmt.sql.row

\* sqlite3_step: [code, stmt, db].  A query returns its next row or ends;
\* an INSERT adds its row and ends, or fails on the primary key.
Sqlite3Step(db, stmt) ==
    IF stmt.null THEN [code |-> "SQLITE_MISUSE", stmt |-> stmt, db |-> db]
    ELSE IF stmt.sql.op \in {"INSERT", "INSERT_PARAMS"}
    THEN LET into == Lookup(db, stmt.sql.name)
             ins == InsertAll(into.cols, into.rows, <<InsertedRow(into.cols, stmt)>>)
         IN  IF ins.ok
             THEN [code |-> "SQLITE_DONE", stmt |-> [stmt EXCEPT !.state = "done"],
                   db |-> Store(db, stmt.sql.name, [into EXCEPT !.rows = ins.rows])]
             ELSE [code |-> "SQLITE_CONSTRAINT",
                   stmt |-> [stmt EXCEPT !.state = "error"], db |-> db]
    ELSE LET rows == IF stmt.state = "row" THEN stmt.rows
                     ELSE QueryRows(db, stmt.sql)
             pos == IF stmt.state = "row" THEN stmt.pos ELSE 0
         IN  IF pos < Len(rows)
             THEN [code |-> "SQLITE_ROW",
                   stmt |-> [stmt EXCEPT !.state = "row", !.rows = rows,
                                         !.pos = pos + 1],
                   db |-> db]
             ELSE [code |-> "SQLITE_DONE",
                   stmt |-> [stmt EXCEPT !.state = "done", !.rows = rows,
                                         !.pos = pos],
                   db |-> db]

\* the results with the SQLITE_ROW case left out: a row falls to the default
StepStatementResultsNoRowCase(code) ==
    [done |-> code = "SQLITE_DONE", error |-> code # "SQLITE_DONE"]

StepStatementResults(code) ==
    [done |-> code = "SQLITE_DONE",
     error |-> code \notin {"SQLITE_DONE", "SQLITE_ROW"}]

StepStatement(db, stmt) ==
    LET r == Sqlite3Step(db, stmt)
    IN  [done |-> StepStatementResults(r.code).done,
         error |-> StepStatementResults(r.code).error,
         stmt |-> r.stmt, db |-> r.db]

\* the same with the bindings cleared (sqlite3_clear_bindings)
ResetStatementClearBindings(stmt) ==
    [stmt EXCEPT !.state = "ready", !.pos = 0,
                 !.bound = [k \in DOMAIN stmt.bound |-> NullDatum]]

\* sqlite3_reset: back to the start of the run, the bindings as they are
ResetStatement(stmt) == [stmt EXCEPT !.state = "ready", !.pos = 0]

\* the column of the row the statement is on, columns counted from 0, as
\* sqlite3_column_text gives it: a text as it is, an integer as its decimal
\* digits.  (A NULL cell gives a null pointer, from which no std::string
\* can be built; no statement stepped here returns one.)
GetColumnText(stmt, columnIndex) ==
    LET cell == stmt.rows[stmt.pos][columnIndex + 1]
    IN  IF stmt.sql.op = "SELECT" THEN ToString(cell) ELSE cell

GetColumnBoolean(stmt, columnIndex) == stmt.rows[stmt.pos][columnIndex + 1] # 0

\* the same two helpers on a row of typed data
GetColumnTextTyped(stmt, columnIndex) ==
    Sqlite3ColumnText(stmt.rows[stmt.pos][columnIndex + 1])

GetColumnBooleanTyped(stmt, columnIndex) ==
    Sqlite3ColumnInt(stmt.rows[stmt.pos][columnIndex + 1]) # "0"

\* sqlite3_bind_*: placeholders are counted from 1; an index that names no
\* placeholder is SQLITE_RANGE and binds nothing
Sqlite3Bind(stmt, index, d) ==
    IF index \in DOMAIN stmt.bound THEN [stmt EXCEPT !.bound[index] = d] ELSE stmt

\* BindStatementParameter(stmt, index, value): the text is bound at the
\* index as given, the result of sqlite3_bind_text dropped
BindStatementParameter(stmt, index, value) ==
    Sqlite3Bind(stmt, index, Datum("TEXT", value))

-----------------------------------------------------------------------------
(* PreparedStatement: the typed interface of a statement.  A Value is a    *)
(* record [type, v] with type one of Text, Integer, Real, Boolean, Null    *)
(* and v the content written as text.                                      *)

Value(type, v) == [type |-> type, v |-> v]

NullValue == Value("Null", "")

\* the datum a Value is bound as
ValueDatum(value) ==
    CASE value.type = "Text" -> Datum("TEXT", value.v)
      [] value.type = "Integer" -> Datum("INTEGER", value.v)
      [] value.type = "Real" -> Datum("REAL", value.v)
      [] value.type = "Boolean" -> Datum("INTEGER", IF value.v = "true" THEN "1" ELSE "0")
      [] OTHER -> NullDatum

\* the same with Null binding nothing: what was bound stays
BindParameterNullSkipped(stmt, index, value) ==
    IF value.type = "Null" THEN stmt
    ELSE IF value.type = "Text"
    THEN BindStatementParameter(stmt, index + 1, value.v)
    ELSE Sqlite3Bind(stmt, index + 1, ValueDatum(value))

\* the same with a raw index: position index is taken for the engine's
BindParameterRawIndex(stmt, index, value) ==
    IF value.type = "Text"
    THEN BindStatementParameter(stmt, index, value.v)
    ELSE Sqlite3Bind(stmt, index, ValueDatum(value))

\* BindParameter(index, value): position index, counted from 0, is the
\* engine's placeholder index + 1; Null binds NULL over what was there
BindParameter(stmt, index, value) ==
    IF value.type = "Text"
    THEN BindStatementParameter(stmt, index + 1, value.v)
    ELSE Sqlite3Bind(stmt, index + 1, ValueDatum(value))

\* BindParameters(values): the values in order at the first placeholders
BindParameters(stmt, values) ==
    [stmt EXCEPT !.bound =
        [k \in DOMAIN stmt.bound |->
            IF k <= Len(values) THEN ValueDatum(values[k]) ELSE stmt.bound[k]]]

\* the same with the NULL check left out
FetchColumnNoNullCheck(stmt, index, type) ==
    CASE type = "Text" -> Value("Text", GetColumnTextTyped(stmt, index))
      [] type = "Integer" ->
            Value("Integer", Sqlite3ColumnInt(stmt.rows[stmt.pos][index + 1]))
      [] type = "Real" ->
            Value("Real", Sqlite3ColumnDouble(stmt.rows[stmt.pos][index + 1]))
      [] type = "Boolean" ->
            Value("Boolean", IF GetColumnBooleanTyped(stmt, index) THEN "true" ELSE "false")
      [] OTHER -> NullValue

\* FetchColumn(index, type): Null when the column is NULL, whatever the
\* type asked for; else the column converted to that type
FetchColumn(stmt, index, type) ==
    IF Sqlite3ColumnIsNull(stmt.rows[stmt.pos][index + 1]) THEN NullValue
    ELSE CASE type = "Text" -> Value("Text", GetColumnTextTyped(stmt, index))
           [] type = "Integer" ->
                 Value("Integer", Sqlite3ColumnInt(stmt.rows[stmt.pos][index + 1]))
           [] type = "Real" ->
                 Value("Real", Sqlite3ColumnDouble(stmt.rows[stmt.pos][index + 1]))
           [] type = "Boolean" ->
                 Value("Boolean",
                       IF GetColumnBooleanTyped(stmt, index) THEN "true" ELSE "false")
           [] OTHER -> NullValue

-----------------------------------------------------------------------------
(* SQLiteDatabase::Impl::ReadMetadata *)

\* the inner loop: one ColumnDefinition per row of the table's schema query
RECURSIVE ReadTableSchema(_, _, _)
ReadTableSchema(db, getTableSchema, columnDefinitions) ==
    LET r == StepStatement(db, getTableSchema)
    IN  IF ~r.done /\ ~r.error
        THEN ReadTableSchema(db, r.stmt,
                 Append(columnDefinitions,
                        [name |-> GetColumnText(r.stmt, 1),
                         type |-> GetColumnText(r.stmt, 2),
                         isKey |-> GetColumnBoolean(r.stmt, 5)]))
        ELSE columnDefinitions

\* the outer loop: one entry of the cache per row of the table-name query
RECURSIVE ReadTableNames(_, _, _)
ReadTableNames(db, getTableNames, cache) ==
    LET r == StepStatement(db, getTableNames)
    IN  IF ~r.done /\ ~r.error
        THEN LET tableName == GetColumnText(r.stmt, 0)
                 table == ReadTableSchema(db,
                              BuildStatement(db, Sql("TABLE_INFO", tableName, <<>>)),
                              <<>>)
             IN  ReadTableNames(db, r.stmt, Put(cache, tableName, table))
        ELSE cache

\* getTableNames is the statement Open compiled on the connection
ReadMetadata(db) ==
    ReadTableNames(db,
        ResetStatement(BuildStatement(db, Sql("TABLE_NAMES", "", <<>>))),
        EmptyCatalog)

-----------------------------------------------------------------------------
(* The methods of SQLiteDatabase.  Each takes the engine state db and      *)
(* gives [db, errs]: the engine state afterwards and the messages its      *)
(* ExecuteStatement calls returned, in order.                              *)

\* the statement text CreateTable formats: the columns in definition
\* order, PRIMARY KEY after each column flagged isKey
CreateTableStatement(tableName, tableDefinition) ==
    Stmt("CREATE", FALSE, tableName,
         [i \in DOMAIN tableDefinition |->
             [name |-> tableDefinition[i].name,
              type |-> tableDefinition[i].type,
              isKey |-> tableDefinition[i].isKey]],
         <<>>, "")

CreateTable(db, tableName, tableDefinition) ==
    ExecuteAll(db, <<CreateTableStatement(tableName, tableDefinition)>>, <<>>)

DescribeTables == tables

RenameTable(db, oldTableName, newTableName) ==
    ExecuteAll(db, <<Stmt("RENAME", FALSE, oldTableName, <<>>, <<>>, newTableName)>>,
               <<>>)

AddColumn(db, tableName, columnDefinition) ==
    ExecuteAll(db, <<Stmt("ADD_COLUMN", FALSE, tableName, <<columnDefinition>>,
                          <<>>, "")>>, <<>>)

\* the columns DestroyColumn keeps: every cached column but columnName
RECURSIVE KeepColumns(_, _)
KeepColumns(columnDefinitions, columnName) ==
    IF columnDefinitions = <<>> THEN <<>>
    ELSE IF Head(columnDefinitions).name = columnName
        THEN KeepColumns(Tail(columnDefinitions), columnName)
    ELSE <<Head(columnDefinitions).name>>
         \o KeepColumns(Tail(columnDefinitions), columnName)

RECURSIVE RecreateColumns(_, _)
RecreateColumns(columnDefinitions, columnName) ==
    IF columnDefinitions = <<>> THEN <<>>
    ELSE IF Head(columnDefinitions).name = columnName
        THEN RecreateColumns(Tail(columnDefinitions), columnName)
    ELSE <<[name |-> Head(columnDefinitions).name,
            type |-> Head(columnDefinitions).type,
            isKey |-> Head(columnDefinitions).isKey]>>
         \o RecreateColumns(Tail(columnDefinitions), columnName)

\* the search without its short-cut: the column always counts as found
FoundColumnAlways(columnDefinitions, columnName) == TRUE

FoundColumnToBeDestroyed(columnDefinitions, columnName) ==
    \E i \in DOMAIN columnDefinitions : columnDefinitions[i].name = columnName

\* sprintf("%s_", tableName)
TempName(tableName) == tableName \o "_"

\* the temporary table's columns are bare names
BareColumns(names) ==
    [i \in DOMAIN names |-> [name |-> names[i], type |-> "", isKey |-> FALSE]]

DestroyColumnStatements(tableName, keepColumns, recreateColumns) ==
    << Stmt("BEGIN", FALSE, "", <<>>, <<>>, ""),
       Stmt("CREATE", TRUE, TempName(tableName), BareColumns(keepColumns), <<>>, ""),
       Stmt("INSERT_SELECT", FALSE, TempName(tableName), <<>>, keepColumns, tableName),
       Stmt("DROP", FALSE, tableName, <<>>, <<>>, ""),
       Stmt("CREATE", FALSE, tableName, recreateColumns, <<>>, ""),
       Stmt("INSERT_SELECT", FALSE, tableName, <<>>, keepColumns, TempName(tableName)),
       Stmt("DROP", FALSE, TempName(tableName), <<>>, <<>>, ""),
       Stmt("COMMIT", FALSE, "", <<>>, <<>>, "") >>

DestroyColumn(db, cache, tableName, columnName) ==
    IF tableName \notin DOMAIN cache THEN [db |-> db, errs |-> <<>>]
    ELSE IF ~FoundColumnToBeDestroyed(cache[tableName], columnName)
        THEN [db |-> db, errs |-> <<>>]
    ELSE ExecuteAll(db,
             DestroyColumnStatements(tableName,
                 KeepColumns(cache[tableName], columnName),
                 RecreateColumns(cache[tableName], columnName)),
             <<>>)

DestroyTable(db, tableName) == [db |-> db, errs |-> <<>>]

\* UpdateRows has no statement in its body: it returns 0.
UpdateRows(db, tableName, rowSelector, columns) ==
    [db |-> db, errs |-> <<>>, count |-> 0]

\* The migration methods return void: the message ExecuteStatement gave
\* is cast away and the caller is handed nothing.
Discard(errs) == ""

\* The serialized state of a store (sqlite3_serialize): the bytes stand
\* for the catalog they encode.
SerializeDatabase(store) == <<"SQLite format 3", store>>

\* CreateSnapshot returns an empty Blob.
CreateSnapshot(db) == <<>>

\* InstallSnapshot has an empty body: it does nothing to the connection or
\* to the file (did) and has nothing to report.
InstallSnapshot(db, blob) == [db |-> db, errs |-> <<>>, did |-> <<>>]

-----------------------------------------------------------------------------
(* The database files a store may be opened on, and the inputs of calls.   *)

TypeOf(name) == IF name = "a" THEN "INTEGER" ELSE "TEXT"

\* the sequences of n distinct column names
ColSeqs(n) == {s \in [1..n -> ColNames] : NoDup(s)}

\* catalog columns for names, keys being the positions in the primary key
KeyedCols(names, keys) ==
    [i \in DOMAIN names |->
        [name |-> names[i], type |-> TypeOf(names[i]),
         pk |-> IF i \in keys THEN Cardinality({j \in keys : j <= i}) ELSE 0]]

RECURSIVE ValidRows(_, _)
\* rows the engine can hold under cols: inserting them one by one reproduces them
ValidRows(cols, rows) ==
    LET r == InsertAll(cols, <<>>, rows) IN r.ok /\ r.rows = rows

RowSeqs(k) ==
    UNION {[1..n -> [1..k -> Values]] : n \in {m \in 0..MaxRows : m * k <= MaxCells}}

InitialTables ==
    UNION { UNION { { [cols |-> KeyedCols(names, keys), rows |-> rows] :
                        rows \in {rs \in RowSeqs(Len(names)) :
                                     ValidRows(KeyedCols(names, keys), rs)} } :
                    keys \in SUBSET (DOMAIN names) } :
            names \in UNION {ColSeqs(n) : n \in 1..MaxCols} }

\* a second table the file may hold: under the name DestroyColumn uses for
\* its temporary table, or under a name that is a keyword
OtherTable == [cols |-> KeyedCols(<<"b">>, {}), rows |-> <<<<MaxVal>>>>]
OtherNames == {"t_", "order"}

InitialStores ==
    {"t" :> t : t \in InitialTables}
    \cup {("t" :> t) @@ (n :> OtherTable) : t \in InitialTables, n \in OtherNames}

\* the definitions CreateTable is called with
TableDefinitionsIn ==
    UNION { { [i \in DOMAIN names |->
                 [name |-> names[i], type |-> TypeOf(names[i]), isKey |-> i \in keys]] :
              keys \in SUBSET (DOMAIN names) } :
            names \in {s \in UNION {ColSeqs(n) : n \in 0..MaxDefCols} :
                          Range(s) \subseteq DefColNames} }

ColumnDefinitionsIn ==
    {[name |-> n, type |-> TypeOf(n), isKey |-> k] : n \in ColNames, k \in BOOLEAN}

-----------------------------------------------------------------------------
(* Connections and the statements compiled on them.  A call's engine calls *)
(* on connections are records [op, conn, stmt]; conn is "db" for the       *)
(* connection impl_->db holds when the call starts and "dbRaw" for the one *)
(* the call opens; stmt names the statement prepared or finalized.         *)

Ev(op, conn, stmt) == [op |-> op, conn |-> conn, stmt |-> stmt]

\* ReadMetadata on the connection: one schema statement per table, built
\* and let go within the loop body (none when its text does not compile)
RECURSIVE ReadMetadataSteps(_, _)
ReadMetadataSteps(conn, names) ==
    IF names = <<>> THEN <<>>
    ELSE (IF IsIdentifier(Head(names))
          THEN <<Ev("sqlite3_prepare_v2", conn, "getTableSchema"),
                 Ev("sqlite3_finalize", conn, "getTableSchema")>>
          ELSE <<>>)
         \o ReadMetadataSteps(conn, Tail(names))

\* Open that succeeds: sqlite3_open; the assignment to impl_->db lets the
\* old connection go (sqlite3_close) when there is one; the table-name
\* query is built on the new connection and the assignment to
\* impl_->getTableNames lets the old statement go (sqlite3_finalize);
\* then ReadMetadata.
OpenSteps(wasOpen, db) ==
    <<Ev("sqlite3_open", "dbRaw", "")>>
    \o (IF wasOpen THEN <<Ev("sqlite3_close", "db", "")>> ELSE <<>>)
    \o <<Ev("sqlite3_prepare_v2", "dbRaw", "getTableNames")>>
    \o (IF wasOpen THEN <<Ev("sqlite3_finalize", "db", "getTableNames")>> ELSE <<>>)
    \o ReadMetadataSteps("dbRaw", SetToSeq(DOMAIN db.main))

\* Open that fails: the handle sqlite3_open gave is closed, impl_ untouched
OpenFailsSteps ==
    <<Ev("sqlite3_open", "dbRaw", ""), Ev("sqlite3_close", "dbRaw", "")>>

\* the destructor: the members of Impl go in the reverse of their order of
\* declaration (db, getTableNames, tables): the statement, then the
\* connection
DestroySteps(wasOpen) ==
    IF wasOpen
    THEN <<Ev("sqlite3_finalize", "db", "getTableNames"), Ev("sqlite3_close", "db", "")>>
    ELSE <<>>

\* the statements alive when a call starts: the cached table-name query
LiveAtEntry(wasOpen) ==
    IF wasOpen THEN {[conn |-> "db", stmt |-> "getTableNames"]} ELSE {}

\* the statements alive just before the k-th engine call of did
LiveBefore(entry, did, k) ==
    {st \in entry \cup {[conn |-> did[j].conn, stmt |-> did[j].stmt] :
                           j \in {i \in 1..(k - 1) : did[i].op = "sqlite3_prepare_v2"}} :
        ~\E j \in 1..(k - 1) :
            /\ did[j].op = "sqlite3_finalize"
            /\ did[j].conn = st.conn /\ did[j].stmt = st.stmt
            /\ \A i \in (j + 1)..(k - 1) :
                   ~(did[i].op = "sqlite3_prepare_v2"
                        /\ did[i].conn = st.conn /\ did[i].stmt = st.stmt)}

-----------------------------------------------------------------------------
(* The state machine *)

Engine == [main |-> main, temp |-> temp, inTxn |-> inTxn]

NoCall ==
    [op |-> "none", tableName |-> "", other |-> "", definition |-> <<>>,
     blob |-> <<>>, errs |-> <<>>, reported |-> "", fault |-> "none",
     returned |-> 0, did |-> <<>>,
     pre |-> [main |-> EmptyCatalog, tables |-> EmptyCatalog, opened |-> FALSE]]

\* what a call leaves in call: its name and arguments, the messages its
\* statements returned, what the caller was handed (reported, blob, the
\* count returned), what it did to connections and files, in order (did),
\* and the catalog and cache it started from
Called(op, tableName, other, definition, errs) ==
    [op |-> op, tableName |-> tableName, other |-> other,
     definition |-> definition, blob |-> <<>>, errs |-> errs,
     reported |-> Discard(errs), fault |-> "none",
     returned |-> 0, did |-> <<>>,
     pre |-> [main |-> main, tables |-> tables, opened |-> opened]]

\* A store holding one small table is followed for MaxCalls calls, any
\* other store for WideCalls calls.
Small(store) ==
    /\ DOMAIN store = {"t"}
    /\ Len(store["t"].cols) <= SmallCols
    /\ Len(store["t"].rows) <= SmallRows

Budget(store) == IF Small(store) THEN MaxCalls ELSE WideCalls

Init ==
    /\ opened = FALSE
    /\ main \in InitialStores
    /\ temp = EmptyCatalog
    /\ inTxn = FALSE
    /\ tables = EmptyCatalog
    /\ call = NoCall
    /\ statement = NullStatement
    /\ steps = <<>>
    /\ budget = Budget(main)

SetEngine(r) ==
    /\ main' = r.db.main
    /\ temp' = r.db.temp
    /\ inTxn' = r.db.inTxn

\* Open: a new connection (its temporary catalog is empty, no transaction
\* is open) and the cache read from the catalog.
Open ==
    /\ budget > 0
    /\ statement.null
    /\ opened' = TRUE
    /\ temp' = EmptyCatalog
    /\ inTxn' = FALSE
    /\ main' = main
    /\ tables' = ReadMetadata([main |-> main, temp |-> EmptyCatalog, inTxn |-> FALSE])
    /\ call' = [Called("Open", "", "", <<>>, <<>>)
                   EXCEPT !.did = OpenSteps(opened, Engine)]
    /\ budget' = budget - 1
    /\ UNCHANGED <<statement, steps>>

OpenFails ==
    /\ budget > 0
    /\ call' = [Called("OpenFails", "", "", <<>>, <<>>) EXCEPT !.did = OpenFailsSteps]
    /\ budget' = budget - 1
    /\ UNCHANGED <<opened, main, temp, inTxn, tables, statement, steps>>

DoCreateTable(tableName, tableDefinition) ==
    /\ opened /\ budget > 0
    /\ LET r == CreateTable(Engine, tableName, tableDefinition)
       IN  /\ SetEngine(r)
           /\ call' = Called("CreateTable", tableName, "", tableDefinition, r.errs)
    /\ budget' = budget - 1
    /\ UNCHANGED <<opened, tables, statement, steps>>

DoRenameTable(oldTableName, newTableName) ==
    /\ opened /\ budget > 0
    /\ LET r == RenameTable(Engine, oldTableName, newTableName)
       IN  /\ SetEngine(r)
           /\ call' = Called("RenameTable", oldTableName, newTableName, <<>>, r.errs)
    /\ budget' = budget - 1
    /\ UNCHANGED <<opened, tables, statement, steps>>

DoAddColumn(tableName, columnDefinition) ==
    /\ opened /\ budget > 0
    /\ LET r == AddColumn(Engine, tableName, columnDefinition)
       IN  /\ SetEngine(r)
           /\ call' = Called("AddColumn", tableName, "", <<columnDefinition>>, r.errs)
    /\ budget' = budget - 1
    /\ UNCHANGED <<opened, tables, statement, steps>>

DoDestroyColumn(tableName, columnName) ==
    /\ opened /\ budget > 0
    /\ LET r == DestroyColumn(Engine, tables, tableName, columnName)
       IN  /\ SetEngine(r)
           /\ call' = Called("DestroyColumn", tableName, columnName, <<>>, r.errs)
    /\ budget' = budget - 1
    /\ UNCHANGED <<opened, tables, statement, steps>>

DoDestroyTable(tableName) ==
    /\ opened /\ budget > 0
    /\ LET r == DestroyTable(Engine, tableName)
       IN  /\ SetEngine(r)
           /\ call' = Called("DestroyTable", tableName, "", <<>>, r.errs)
    /\ budget' = budget - 1
    /\ UNCHANGED <<opened, tables, statement, steps>>

\* the Blobs InstallSnapshot is called with: the serialized states of
\* an empty store and of a store holding one table
SnapshotStores == {EmptyCatalog, "t" :> OtherTable}
Blobs == {SerializeDatabase(st) : st \in SnapshotStores}

DoCreateSnapshot ==
    /\ opened /\ budget > 0
    /\ call' = [Called("CreateSnapshot", "", "", <<>>, <<>>)
                   EXCEPT !.blob = CreateSnapshot(Engine)]
    /\ budget' = budget - 1
    /\ UNCHANGED <<opened, main, temp, inTxn, tables, statement, steps>>

DoInstallSnapshot(blob) ==
    /\ opened /\ budget > 0
    /\ LET r == InstallSnapshot(Engine, blob)
       IN  /\ SetEngine(r)
           /\ call' = [Called("InstallSnapshot", "", "", <<>>, r.errs)
                          EXCEPT !.blob = blob, !.did = r.did]
    /\ budget' = budget - 1
    /\ UNCHANGED <<opened, tables, statement, steps>>

Next ==
    \/ Open
    \/ OpenFails
    \/ \E n \in TableNames, d \in TableDefinitionsIn : DoCreateTable(n, d)
    \/ \E o \in TableNames, n \in TableNames : DoRenameTable(o, n)
    \/ \E n \in TableNames, c \in ColumnDefinitionsIn : DoAddColumn(n, c)
    \/ \E n \in TableNames, c \in ColNames : DoDestroyColumn(n, c)
    \/ \E n \in TableNames : DoDestroyTable(n)
    \/ DoCreateSnapshot
    \/ \E b \in Blobs : DoInstallSnapshot(b)

Spec == Init /\ [][Next]_vars

-----------------------------------------------------------------------------
(* The statement protocol: a caller builds one statement on the open store *)
(* and steps it, resets it or lets it go.                                  *)

StatementsIn ==
    {Sql("SELECT", n, <<>>) : n \in TableNames}
    \cup {Sql("INSERT", n, row) :
             n \in TableNames, row \in UNION {[1..k -> Values] : k \in 1..MaxCols}}

DoBuildStatement(sql) ==
    /\ opened /\ budget > 0
    /\ statement' = BuildStatement(Engine, sql)
    /\ steps' = <<>>
    /\ call' = [Called("BuildStatement", sql.name, sql.op, <<>>,
                        <<CompileError(Engine, sql)>>)
                   EXCEPT !.reported = BuildStatementError(Engine, sql)]
    /\ budget' = budget - 1
    /\ UNCHANGED <<opened, main, temp, inTxn, tables>>

\* the row a statement is on, every column fetched
CurrentRow(stmt) ==
    IF stmt.state = "row"
    THEN [i \in DOMAIN stmt.rows[stmt.pos] |-> GetColumnText(stmt, i - 1)]
    ELSE <<>>

\* Step, on a statement that has not ended.  An INSERT is stepped only
\* while its table holds fewer than MaxRows rows.
DoStep ==
    /\ opened
    /\ ~statement.null
    /\ statement.state \in {"ready", "row"}
    /\ statement.sql.op = "INSERT" =>
           Len(Lookup(Engine, statement.sql.name).rows) < MaxRows
    /\ LET r == StepStatement(Engine, statement)
       IN  /\ statement' = r.stmt
           /\ steps' = Append(steps, [done |-> r.done, error |-> r.error,
                                      row |-> CurrentRow(r.stmt)])
           /\ main' = r.db.main
           /\ temp' = r.db.temp
           /\ inTxn' = r.db.inTxn
    /\ call' = Called("Step", statement.sql.name, statement.sql.op, <<>>, <<>>)
    /\ UNCHANGED <<opened, tables, budget>>

DoReset ==
    /\ opened
    /\ ~statement.null
    /\ statement.state # "ready"
    /\ statement' = ResetStatement(statement)
    /\ steps' = <<>>
    /\ call' = Called("Reset", statement.sql.name, statement.sql.op, <<>>, <<>>)
    /\ UNCHANGED <<opened, main, temp, inTxn, tables, budget>>

\* the caller lets the statement go: it is finalized
DoFinalize ==
    /\ ~statement.null
    /\ statement' = NullStatement
    /\ steps' = <<>>
    /\ call' = Called("Finalize", statement.sql.name, statement.sql.op, <<>>, <<>>)
    /\ UNCHANGED <<opened, main, temp, inTxn, tables, budget>>

StmtCalls == 2

InitStmt ==
    /\ opened = FALSE
    /\ main \in InitialStores
    /\ temp = EmptyCatalog
    /\ inTxn = FALSE
    /\ tables = EmptyCatalog
    /\ call = NoCall
    /\ statement = NullStatement
    /\ steps = <<>>
    /\ budget = StmtCalls

NextStmt ==
    \/ Open
    \/ OpenFails
    \/ \E sql \in StatementsIn : DoBuildStatement(sql)
    \/ DoStep
    \/ DoReset
    \/ DoFinalize

SpecStmt == InitStmt /\ [][NextStmt]_vars

-----------------------------------------------------------------------------
(* ExecuteStatement on a text of one or more statements, on a connection   *)
(* that is open or null.                                                   *)

\* one statement of a text: a query is compiled and stepped to its end with
\* no callback, its rows going nowhere
ExecOne(db, s) ==
    IF s.op = "SELECT"
    THEN IF ~IsIdentifier(s.src) THEN Fail(db, "syntax error")
         ELSE IF Resolve(db, s.src) = "none" THEN Fail(db, "no such table")
         ELSE Ok(db)
    ELSE ExecuteStatement(db, s)

\* sqlite3_exec(db, text, NULL, NULL, &errmsg): [code, errmsg, db].  A null
\* connection is refused with SQLITE_MISUSE before errmsg is touched; the
\* statements of the text are compiled and run one after the other up to
\* the first that fails, whose message is left in errmsg.
RECURSIVE Sqlite3Exec(_, _, _)
Sqlite3Exec(connected, db, text) ==
    IF ~connected
    THEN [code |-> "SQLITE_MISUSE", errmsg |-> NullPointer, db |-> db]
    ELSE IF text = <<>>
    THEN [code |-> "SQLITE_OK", errmsg |-> NullPointer, db |-> db]
    ELSE LET r == ExecOne(db, Head(text))
         IN  IF r.err # ""
             THEN [code |-> "SQLITE_ERROR", errmsg |-> r.err, db |-> r.db]
             ELSE Sqlite3Exec(connected, r.db, Tail(text))

\* what building a std::string from a null char* can do
NullStringOutcomes == {"std::logic_error", "SIGSEGV"}

\* the texts ExecuteStatement is called with: one or two statements
ExecStatementsIn ==
    { Stmt("CREATE", FALSE, "t_", <<[name |-> "b", type |-> "TEXT", isKey |-> FALSE]>>,
           <<>>, ""),
      Stmt("CREATE", FALSE, "t", <<>>, <<>>, ""),
      Stmt("DROP", FALSE, "t", <<>>, <<>>, ""),
      Stmt("SELECT", FALSE, "", <<>>, <<>>, "t"),
      Stmt("SELECT", FALSE, "", <<>>, <<>>, "t_"),
      Stmt("INSERT_SELECT", FALSE, "t", <<>>, <<"a">>, "t") }

ExecTextsIn ==
    {<<s>> : s \in ExecStatementsIn}
    \cup {<<s1, s2>> : s1 \in ExecStatementsIn, s2 \in ExecStatementsIn}

\* ExecuteStatement(db, text): "" when sqlite3_exec gave SQLITE_OK, else a
\* std::string built from errmsg
DoExecuteStatement(text) ==
    /\ budget > 0
    /\ LET r == Sqlite3Exec(opened, Engine, text)
           done == [Called("ExecuteStatement", "", r.code, text, <<>>)
                       EXCEPT !.errs = <<r.errmsg>>]
       IN  /\ SetEngine(r)
           /\ IF r.code = "SQLITE_OK"
              THEN call' = [done EXCEPT !.reported = ""]
              ELSE IF r.errmsg # NullPointer
              THEN call' = [done EXCEPT !.reported = r.errmsg]
              ELSE \E f \in NullStringOutcomes :
                       call' = [done EXCEPT !.reported = "", !.fault = f]
    /\ budget' = budget - 1
    /\ UNCHANGED <<opened, tables, statement, steps>>

ExecCalls == 2

\* the files followed here: table t is small, alone or beside another table
ExecStores ==
    {store \in InitialStores :
        Len(store["t"].cols) <= SmallCols /\ Len(store["t"].rows) <= SmallRows}

InitExec ==
    /\ opened = FALSE
    /\ main \in ExecStores
    /\ temp = EmptyCatalog
    /\ inTxn = FALSE
    /\ tables = EmptyCatalog
    /\ call = NoCall
    /\ statement = NullStatement
    /\ steps = <<>>
    /\ budget = ExecCalls

NextExec ==
    \/ Open
    \/ OpenFails
    \/ \E text \in ExecTextsIn : DoExecuteStatement(text)

SpecExec == InitExec /\ [][NextExec]_vars

-----------------------------------------------------------------------------
(* The life of a Database object: opened, opened again, destroyed.         *)

\* ~SQLiteDatabase: nothing can be called afterwards
DoDestroy ==
    /\ budget > 0
    /\ statement.null
    /\ opened' = FALSE
    /\ call' = [Called("~SQLiteDatabase", "", "", <<>>, <<>>)
                   EXCEPT !.did = DestroySteps(opened)]
    /\ budget' = 0
    /\ UNCHANGED <<main, temp, inTxn, tables, statement, steps>>

ConnCalls == 3

InitConn ==
    /\ opened = FALSE
    /\ main \in ExecStores
    /\ temp = EmptyCatalog
    /\ inTxn = FALSE
    /\ tables = EmptyCatalog
    /\ call = NoCall
    /\ statement = NullStatement
    /\ steps = <<>>
    /\ budget = ConnCalls

NextConn ==
    \/ Open
    \/ OpenFails
    \/ DoDestroy

SpecConn == InitConn /\ [][NextConn]_vars

-----------------------------------------------------------------------------
(* The row operations.  A RowSelector is a record [name, value]: the rows   *)
(* whose column name holds value; ColumnDescriptors is a sequence of such  *)
(* records: the values to give to columns.                                 *)

RowSelectorsIn == {[name |-> n, value |-> v] : n \in DefColNames, v \in Values}

ColumnDescriptorsIn ==
    {<<[name |-> n, value |-> v]>> : n \in DefColNames, v \in Values}

DoUpdateRows(tableName, rowSelector, columns) ==
    /\ opened /\ budget > 0
    /\ LET r == UpdateRows(Engine, tableName, rowSelector, columns)
       IN  /\ SetEngine(r)
           /\ call' = [Called("UpdateRows", tableName, rowSelector.name, columns, r.errs)
                          EXCEPT !.returned = r.count, !.blob = <<rowSelector>>]
    /\ budget' = budget - 1
    /\ UNCHANGED <<opened, tables, statement, steps>>

RowCalls == 2

InitRows ==
    /\ opened = FALSE
    /\ main \in ExecStores
    /\ temp = EmptyCatalog
    /\ inTxn = FALSE
    /\ tables = EmptyCatalog
    /\ call = NoCall
    /\ statement = NullStatement
    /\ steps = <<>>
    /\ budget = RowCalls

NextRows ==
    \/ Open
    \/ OpenFails
    \/ \E n \in TableNames, sel \in RowSelectorsIn, cols \in ColumnDescriptorsIn :
           DoUpdateRows(n, sel, cols)

SpecRows == InitRows /\ [][NextRows]_vars

-----------------------------------------------------------------------------
(* The typed statement protocol: a caller builds a statement on table t of *)
(* columns a INTEGER and b TEXT, binds Values to its placeholders, steps   *)
(* and resets it, and fetches the columns of the rows a query returns.     *)
(* Here steps holds one entry per call made since the store was opened:    *)
(* the call and its arguments, the Value a fetch returned, and the         *)
(* statement's state and bindings and the rows of t after the call.        *)

BindStore == "t" :> [cols |-> KeyedCols(<<"a", "b">>, {}), rows |-> <<>>]

BindStatementsIn == {Sql("INSERT_PARAMS", "t", <<>>), Sql("SELECT", "t", <<>>)}

ValueTypes == {"Text", "Integer", "Real", "Boolean", "Null"}

\* the sequences handed to BindParameters: one value per placeholder, or
\* one value for the first placeholder only
BindRowsIn ==
    {<<Value("Integer", "1"), Value("Text", "x")>>,
     <<Value("Text", "1.0"), Value("Integer", "1")>>,
     <<Value("Real", "1.5"), Value("Boolean", "true")>>,
     <<NullValue, Value("Real", "1.5")>>,
     <<Value("Boolean", "true")>>}

\* the values handed to BindParameter one at a time
BindOneIn == {Value("Text", "x"), Value("Integer", "1"), NullValue}

Logged(op, index, values, type, result, stmt, db) ==
    [op |-> op, index |-> index, values |-> values, type |-> type,
     result |-> result, sql |-> stmt.sql.op, state |-> stmt.state,
     bound |-> stmt.bound, rows |-> db.main["t"].rows]

DoBuildBound(sql) ==
    /\ opened /\ budget > 0
    /\ statement' = BuildStatement(Engine, sql)
    /\ steps' = Append(steps, Logged("BuildStatement", 0, <<>>, "", NullValue,
                                     statement', Engine))
    /\ call' = Called("BuildStatement", sql.name, sql.op, <<>>, <<>>)
    /\ budget' = budget - 1
    /\ UNCHANGED <<opened, main, temp, inTxn, tables>>

DoBindParameter(index, value) ==
    /\ opened /\ budget > 0
    /\ ~statement.null
    /\ statement.sql.op = "INSERT_PARAMS" /\ statement.state = "ready"
    /\ statement' = BindParameter(statement, index, value)
    /\ steps' = Append(steps, Logged("BindParameter", index, <<value>>, "", NullValue,
                                     statement', Engine))
    /\ call' = Called("BindParameter", statement.sql.name, "", <<>>, <<>>)
    /\ budget' = budget - 1
    /\ UNCHANGED <<opened, main, temp, inTxn, tables>>

DoBindParameters(values) ==
    /\ opened /\ budget > 0
    /\ ~statement.null
    /\ statement.sql.op = "INSERT_PARAMS" /\ statement.state = "ready"
    /\ statement' = BindParameters(statement, values)
    /\ steps' = Append(steps, Logged("BindParameters", 0, values, "", NullValue,
                                     statement', Engine))
    /\ call' = Called("BindParameters", statement.sql.name, "", <<>>, <<>>)
    /\ budget' = budget - 1
    /\ UNCHANGED <<opened, main, temp, inTxn, tables>>

\* Step, on a statement that has not ended.  The INSERT is stepped only
\* while t holds fewer than MaxRows rows.
DoStepBound ==
    /\ opened /\ budget > 0
    /\ ~statement.null
    /\ statement.state \in {"ready", "row"}
    /\ statement.sql.op = "INSERT_PARAMS" => Len(main["t"].rows) < MaxRows
    /\ LET r == StepStatement(Engine, statement)
       IN  /\ statement' = r.stmt
           /\ steps' = Append(steps, Logged("Step", 0, <<>>, "", NullValue,
                                            r.stmt, r.db))
           /\ main' = r.db.main
           /\ temp' = r.db.temp
           /\ inTxn' = r.db.inTxn
    /\ call' = Called("Step", statement.sql.name, statement.sql.op, <<>>, <<>>)
    /\ budget' = budget - 1
    /\ UNCHANGED <<opened, tables>>

DoResetBound ==
    /\ opened /\ budget > 0
    /\ ~statement.null
    /\ statement.state # "ready"
    /\ statement' = ResetStatement(statement)
    /\ steps' = Append(steps, Logged("Reset", 0, <<>>, "", NullValue,
                                     statement', Engine))
    /\ call' = Called("Reset", statement.sql.name, statement.sql.op, <<>>, <<>>)
    /\ budget' = budget - 1
    /\ UNCHANGED <<opened, main, temp, inTxn, tables>>

DoFetchColumn(index, type) ==
    /\ opened /\ budget > 0
    /\ ~statement.null
    /\ statement.state = "row"
    /\ index + 1 \in DOMAIN statement.rows[statement.pos]
    /\ steps' = Append(steps, Logged("FetchColumn", index, <<>>, type,
                                     FetchColumn(statement, index, type),
                                     statement, Engine))
    /\ call' = Called("FetchColumn", statement.sql.name, type, <<>>, <<>>)
    /\ budget' = budget - 1
    /\ UNCHANGED <<opened, main, temp, inTxn, tables, statement>>

BindCalls == 7

InitBind ==
    /\ opened = FALSE
    /\ main = BindStore
    /\ temp = EmptyCatalog
    /\ inTxn = FALSE
    /\ tables = EmptyCatalog
    /\ call = NoCall
    /\ statement = NullStatement
    /\ steps = <<>>
    /\ budget = BindCalls

NextBind ==
    \/ Open
    \/ \E sql \in BindStatementsIn : DoBuildBound(sql)
    \/ \E index \in 0..1, value \in BindOneIn : DoBindParameter(index, value)
    \/ \E values \in BindRowsIn : DoBindParameters(values)
    \/ DoStepBound
    \/ DoResetBound
    \/ \E index \in 0..1, type \in ValueTypes : DoFetchColumn(index, type)

SpecBind == InitBind /\ [][NextBind]_vars

-----------------------------------------------------------------------------
(* Views of the state the properties are stated on *)

\* the table definitions the engine's catalog holds: name, type and
\* primary-key flag of every column of every table, in catalog order
CatalogDefinitions(cat) ==
    [n \in DOMAIN cat |->
        [i \in DOMAIN cat[n].cols |->
            [name |-> cat[n].cols[i].name, type |-> cat[n].cols[i].type,
             isKey |-> cat[n].cols[i].pk > 0]]]

ColumnNames(table) == Names(table.cols)

HasColumn(cat, tableName, columnName) ==
    /\ tableName \in DOMAIN cat
    /\ columnName \in Range(Names(cat[tableName].cols))

\* s without its elements equal to x
RECURSIVE Without(_, _)
Without(s, x) ==
    IF s = <<>> THEN <<>>
    ELSE IF Head(s) = x THEN Without(Tail(s), x)
    ELSE <<Head(s)>> \o Without(Tail(s), x)

\* the value row holds for the column called name in a table with columns cols
Cell(cols, row, name) == row[IndexOf(Names(cols), name)]

Failed(errs) == \E i \in DOMAIN errs : errs[i] # ""

-----------------------------------------------------------------------------
(* Properties *)

\* DestroyColumn(T, C) has been called on a store where table T has column C
DestroyedExistingColumn ==
    /\ call.op = "DestroyColumn"
    /\ HasColumn(call.pre.main, call.tableName, call.other)

\* C1: after DestroyColumn(T, C) on a store where table T has column C,
\* DescribeTables no longer lists C for T, the surviving columns of T are
\* the original ones in their original order, T has as many rows as before
\* and every row holds its original value in every surviving column.
C1_DestroyColumnContract ==
    DestroyedExistingColumn =>
        LET T == call.tableName
            C == call.other
            old == call.pre.main[T]
        IN  /\ T \in DOMAIN DescribeTables
            /\ C \notin Range(Names(DescribeTables[T]))
            /\ T \in DOMAIN main
            /\ ColumnNames(main[T]) = Without(ColumnNames(old), C)
            /\ Len(main[T].rows) = Len(old.rows)
            /\ \A r \in DOMAIN old.rows : \A n \in Range(ColumnNames(main[T])) :
                   Cell(main[T].cols, main[T].rows[r], n) = Cell(old.cols, old.rows[r], n)

\* C2: DestroyColumn is all-or-nothing: when any of its statements fails,
\* table T is left with its original definition and rows.
C2_DestroyColumnAllOrNothing ==
    (call.op = "DestroyColumn" /\ Failed(call.errs)
         /\ call.tableName \in DOMAIN call.pre.main) =>
        /\ call.tableName \in DOMAIN main
        /\ main[call.tableName] = call.pre.main[call.tableName]

SchemaCalls ==
    {"CreateTable", "RenameTable", "AddColumn", "DestroyColumn", "DestroyTable"}

\* C3: on an open store, after a CreateTable, RenameTable, AddColumn,
\* DestroyColumn or DestroyTable call, whatever calls came before it,
\* DescribeTables returns exactly the table definitions of the engine's
\* catalog.
C3_CacheMirrorsCatalog ==
    (opened /\ call.op \in SchemaCalls) =>
        DescribeTables = CatalogDefinitions(main)

\* C4: immediately after a successful Open, DescribeTables holds one entry
\* per table of the catalog and no other, each listing the table's columns
\* in catalog order with their name, type and primary-key flag.
C4_OpenReadsCatalog ==
    call.op = "Open" => DescribeTables = CatalogDefinitions(main)

\* the cache knows table T and lists column C for it
CachedColumn(cache, tableName, columnName) ==
    /\ tableName \in DOMAIN cache
    /\ \E i \in DOMAIN cache[tableName] : cache[tableName][i].name = columnName

\* C5: DestroyColumn(T, C) where the Database knows no table T, or knows T
\* without a column C, is a no-op: it sends the engine no statement,
\* reports nothing, and leaves the catalog, the rows and the schema cache
\* as they were.
C5_DestroyAbsentIsNoOp ==
    (call.op = "DestroyColumn"
         /\ ~CachedColumn(call.pre.tables, call.tableName, call.other)) =>
        /\ call.errs = <<>>
        /\ call.reported = ""
        /\ main = call.pre.main
        /\ tables = call.pre.tables
        /\ temp = EmptyCatalog
        /\ ~inTxn

\* C5 witness: DestroyColumn was called for a table the cache knows, which
\* holds rows, and a column the table does not have.
C5_Witness ==
    /\ call.op = "DestroyColumn"
    /\ call.tableName \in DOMAIN call.pre.tables
    /\ ~CachedColumn(call.pre.tables, call.tableName, call.other)
    /\ call.tableName \in DOMAIN main
    /\ main[call.tableName].rows # <<>>

\* C6: CreateTable(name, definition), for a name not yet in the store and a
\* definition with at least one column, creates a table whose columns are
\* those of the definition, in order, with the primary key made of exactly
\* the columns flagged isKey.
C6_CreateTableCreates ==
    (call.op = "CreateTable" /\ call.tableName \notin DOMAIN call.pre.main
         /\ call.definition # <<>>) =>
        /\ call.tableName \in DOMAIN main
        /\ CatalogDefinitions(main)[call.tableName] = call.definition

\* C7: a CreateTable, RenameTable, AddColumn or DestroyColumn one of whose
\* statements the engine rejects hands its caller a non-empty message.
C7_FailureIsReported ==
    (call.op \in {"CreateTable", "RenameTable", "AddColumn", "DestroyColumn"}
         /\ Failed(call.errs)) =>
        call.reported # ""

\* the logical content a Blob encodes
Content(blob) == blob[2]

\* C8: after InstallSnapshot(blob) returns, either the store's content is
\* the blob's and the store is open, or the call has reported a failure.
C8_InstallSnapshotAtomic ==
    call.op = "InstallSnapshot" =>
        \/ opened /\ main = Content(call.blob)
        \/ call.reported # ""

\* C9: the Blob CreateSnapshot returns is the complete serialized state of
\* the store, so that stores of different content give different Blobs.
C9_SnapshotIsSerializedState ==
    call.op = "CreateSnapshot" => call.blob = SerializeDatabase(main)

\* the texts of a row's values
RowText(row) == [j \in DOMAIN row |-> ToString(row[j])]

\* the result a step gives while rows remain, and the one that ends them
RowResult(row) == [done |-> FALSE, error |-> FALSE, row |-> row]
DoneResult == [done |-> TRUE, error |-> FALSE, row |-> <<>>]

\* C10: the steps of a freshly built (or reset) query over a table of N
\* rows give the N rows in the table's order, each with done = FALSE and no
\* error, then one result with done = TRUE and no error; the first step of
\* an INSERT the engine accepts gives done = TRUE with no error and the row
\* is in the table.
C10_StepProtocol ==
    /\ (~statement.null /\ statement.sql.op = "SELECT") =>
           LET matched == main[statement.sql.name].rows
           IN  /\ Len(steps) <= Len(matched) + 1
               /\ \A i \in DOMAIN steps :
                      steps[i] = IF i <= Len(matched) THEN RowResult(RowText(matched[i]))
                                 ELSE DoneResult
               /\ statement.state = "done" <=> Len(steps) = Len(matched) + 1
    /\ (call.op = "Step" /\ statement.sql.op = "INSERT"
            /\ UniqueOk(call.pre.main[statement.sql.name].cols,
                        call.pre.main[statement.sql.name].rows,
                        statement.sql.row)) =>
           LET old == call.pre.main[statement.sql.name].rows
               new == main[statement.sql.name].rows
           IN  /\ steps = <<DoneResult>>
               /\ Len(new) = Len(old) + 1
               /\ statement.sql.row \in Range(new)
               /\ Range(old) \subseteq Range(new)

\* C10 witness: a query over a table of two rows has been stepped to its end.
C10_Witness ==
    /\ ~statement.null
    /\ statement.sql.op = "SELECT"
    /\ statement.state = "done"
    /\ Len(steps) = 3
    /\ steps[1].row # steps[2].row

\* the result of a step the engine rejected, as the claim has it
RejectedResult == [done |-> TRUE, error |-> TRUE, row |-> <<>>]

\* C11: a Step the engine rejects (an INSERT whose row breaks the primary
\* key) returns done = TRUE together with an error, and the store's content
\* is as it was before the Step.
C11_RejectedStepReported ==
    (call.op = "Step" /\ statement.sql.op = "INSERT"
         /\ ~UniqueOk(call.pre.main[statement.sql.name].cols,
                      call.pre.main[statement.sql.name].rows,
                      statement.sql.row)) =>
        /\ steps = <<RejectedResult>>
        /\ main = call.pre.main

\* C12: BuildStatement returns exactly one of a usable statement with an
\* empty error, or no statement with a non-empty error.
C12_BuildStatementOutcome ==
    call.op = "BuildStatement" =>
        \/ ~statement.null /\ call.reported = ""
        \/ statement.null /\ call.reported # ""

\* the messages of a text that does not compile
CompileErrors == {"syntax error", "no such table", "no such column"}

\* C13: ExecuteStatement returns the empty string exactly when the engine
\* compiled and ran the text to its end without error, and returns a
\* non-empty description in every other case.
C13_ExecuteStatementResult ==
    call.op = "ExecuteStatement" =>
        /\ call.fault = "none"
        /\ call.reported = "" <=> call.other = "SQLITE_OK"

\* C14: when ExecuteStatement reports a compile error the store's schema
\* and rows are as before the call, also for a text of several statements
\* of which a later one does not compile; a BuildStatement that fails to
\* compile leaves them as before as well.
C14_CompileErrorNoEffect ==
    /\ (call.op = "ExecuteStatement" /\ call.reported \in CompileErrors) =>
           main = call.pre.main
    /\ (call.op = "BuildStatement" /\ statement.null) => main = call.pre.main

\* C20: AddColumn(table, columnDef) on an existing table (without a column
\* of that name) adds the column as the table's last column with the given
\* name and type, in the primary key exactly when isKey is set, and keeps
\* the existing columns and rows.
C20_AddColumnAdds ==
    (call.op = "AddColumn" /\ call.tableName \in DOMAIN call.pre.main
         /\ ~HasColumn(call.pre.main, call.tableName, call.definition[1].name)) =>
        LET T == call.tableName
            old == call.pre.main[T]
        IN  /\ T \in DOMAIN main
            /\ CatalogDefinitions(main)[T] =
                   CatalogDefinitions(call.pre.main)[T] \o call.definition
            /\ Len(main[T].rows) = Len(old.rows)
            /\ \A r \in DOMAIN old.rows :
                   SubSeq(main[T].rows[r], 1, Len(old.cols)) = old.rows[r]

\* the last call of the typed protocol, as logged
LastLogged == steps[Len(steps)]

\* the cell of t under column index of the row the statement is on
FetchedCell(index) == main["t"].rows[statement.pos][index + 1]

NullOverValue ==
    /\ Len(steps) >= 4
    /\ steps[Len(steps)].op = "Step" /\ steps[Len(steps)].sql = "INSERT_PARAMS"
    /\ steps[Len(steps) - 1].op = "BindParameter"
    /\ steps[Len(steps) - 1].values = <<NullValue>>
    /\ steps[Len(steps) - 2].op = "BindParameter"
    /\ steps[Len(steps) - 2].index = steps[Len(steps) - 1].index
    /\ steps[Len(steps) - 2].values # <<NullValue>>

\* the row the INSERT adds when position i holds NULL and the other
\* positions what they held before v was bound
RowWithNullAt(i) ==
    [k \in DOMAIN main["t"].cols |->
        IF k = i + 1 THEN NullDatum
        ELSE ApplyAffinity(main["t"].cols[k].type, steps[Len(steps) - 3].bound[k])]

RECURSIVE BindEach(_, _, _)
BindEach(stmt, values, from) ==
    IF from >= Len(values) THEN stmt
    ELSE BindEach(BindParameter(stmt, from, values[from + 1]), values, from + 1)

\* the statement as it was before the last call
StatementBefore ==
    [statement EXCEPT !.bound = steps[Len(steps) - 1].bound,
                      !.state = steps[Len(steps) - 1].state]

\* the row INSERT INTO t VALUES (?, ?) adds with values at its placeholders
RowOf(values) ==
    [k \in DOMAIN main["t"].cols |->
        ApplyAffinity(main["t"].cols[k].type, ValueDatum(values[k]))]

ExecuteFresh(db, values) ==
    StepStatement(db, BindParameters(
        BuildStatement(db, Sql("INSERT_PARAMS", "t", <<>>)), values)).db

\* the log ends with BindParameters(a), Step, Reset, BindParameters(b), Step
\* on the INSERT, a and b giving a value to every placeholder
BatchedTwice ==
    /\ Len(steps) >= 5
    /\ steps[Len(steps)].op = "Step" /\ steps[Len(steps)].sql = "INSERT_PARAMS"
    /\ steps[Len(steps) - 1].op = "BindParameters"
    /\ Len(steps[Len(steps) - 1].values) = Len(main["t"].cols)
    /\ steps[Len(steps) - 2].op = "Reset"
    /\ steps[Len(steps) - 3].op = "Step"
    /\ steps[Len(steps) - 4].op = "BindParameters"
    /\ Len(steps[Len(steps) - 4].values) = Len(main["t"].cols)

\* the store as it was when BindParameters(a) returned
StoreBeforeBatch ==
    [Engine EXCEPT !.main = "t" :> [main["t"] EXCEPT
                                       !.rows = steps[Len(steps) - 4].rows]]

\* C18: Reset leaves a stepped statement ready with the values bound to it
\* as they were; and BindParameters(a), Step, Reset, BindParameters(b), Step
\* on one statement leave the store as a statement built, bound with a and
\* stepped, then another built, bound with b and stepped, leave it.
C18_ResetKeepsBindings ==
    /\ call.op = "Reset" =>
           /\ statement.state = "ready"
           /\ statement.bound = steps[Len(steps) - 1].bound
    /\ BatchedTwice =>
           main = ExecuteFresh(ExecuteFresh(StoreBeforeBatch,
                                            steps[Len(steps) - 4].values),
                               steps[Len(steps) - 1].values).main

\* one statement has added the row of a and, reset and bound again, the
\* row of b
C18_Witness ==
    /\ BatchedTwice
    /\ steps[Len(steps) - 4].values = <<Value("Integer", "1"), Value("Text", "x")>>
    /\ steps[Len(steps) - 2].bound = <<Datum("INTEGER", "1"), Datum("TEXT", "x")>>
    /\ steps[Len(steps) - 2].state = "ready"
    /\ steps[Len(steps) - 1].values = <<Value("Real", "1.5"), Value("Boolean", "true")>>
    /\ main["t"].rows = <<<<Datum("INTEGER", "1"), Datum("TEXT", "x")>>,
                          <<Datum("REAL", "1.5"), Datum("TEXT", "1")>>>>

\* the logged Step that added row r of t
AddedBy(r) ==
    CHOOSE j \in DOMAIN steps :
        /\ steps[j].op = "Step" /\ steps[j].sql = "INSERT_PARAMS"
        /\ Len(steps[j].rows) = r /\ Len(steps[j - 1].rows) = r - 1

\* row r of t was added by BindParameters(values), Step, values giving every
\* placeholder a value
BoundAndStored(r) ==
    /\ steps[AddedBy(r) - 1].op = "BindParameters"
    /\ Len(steps[AddedBy(r) - 1].values) = Len(main["t"].cols)

\* the Value that was bound for the column the last fetch read
BoundValue == steps[AddedBy(statement.pos) - 1].values[LastLogged.index + 1]

\* C19: a Value bound to the INSERT and stored is read back by FetchColumn,
\* asked for the type of the Value, as that very Value: the same type tag
\* and the same content; a bound Null is read back as Null.
C19_ValueFidelity ==
    (/\ call.op = "FetchColumn"
     /\ BoundAndStored(statement.pos)
     /\ BoundValue.type \in {LastLogged.type, "Null"})
        => LastLogged.result = BoundValue

\* C21: DestroyTable(name) on a store that holds table name removes the
\* table, rows included, from the engine's catalog, and afterwards
\* DescribeTables has no entry for name.
C21_DestroyTableDrops ==
    (call.op = "DestroyTable" /\ call.tableName \in DOMAIN call.pre.main) =>
        /\ call.tableName \notin DOMAIN main
        /\ call.tableName \notin DOMAIN DescribeTables

\* row holds value at the selector's column
Matches(cols, row, rowSelector) ==
    /\ rowSelector.name \in Range(Names(cols))
    /\ Cell(cols, row, rowSelector.name) = rowSelector.value

\* row with the described columns given their values
Updated(cols, row, columns) ==
    [i \in DOMAIN row |->
        IF \E k \in DOMAIN columns : columns[k].name = cols[i].name
        THEN columns[CHOOSE k \in DOMAIN columns : columns[k].name = cols[i].name].value
        ELSE row[i]]

\* UpdateRows was called on a table that has the columns named, in which
\* some row matches the selector
UpdatedMatchingRows ==
    /\ call.op = "UpdateRows"
    /\ call.tableName \in DOMAIN call.pre.main
    /\ \A k \in DOMAIN call.definition :
           HasColumn(call.pre.main, call.tableName, call.definition[k].name)
    /\ \E r \in DOMAIN call.pre.main[call.tableName].rows :
           Matches(call.pre.main[call.tableName].cols,
                   call.pre.main[call.tableName].rows[r], call.blob[1])

\* C22: UpdateRows(table, rowSelector, columns) gives the column values to
\* every row of the table that matches rowSelector and to no other row and
\* returns the number of rows that match; or it fails with every row of
\* the table as it was.
C22_UpdateRowsUpdates ==
    UpdatedMatchingRows =>
        LET T == call.tableName
            old == call.pre.main[T]
            hit == {r \in DOMAIN old.rows : Matches(old.cols, old.rows[r], call.blob[1])}
        IN  \/ /\ T \in DOMAIN main
               /\ Len(main[T].rows) = Len(old.rows)
               /\ \A r \in DOMAIN old.rows :
                      \E q \in DOMAIN main[T].rows :
                          main[T].rows[q] =
                              IF r \in hit THEN Updated(old.cols, old.rows[r], call.definition)
                              ELSE old.rows[r]
               /\ call.returned = Cardinality(hit)
            \/ /\ call.reported # ""
               /\ main = call.pre.main

\* the positions of the columns of cols not called name, in order
Surviving(cols, name) ==
    SelectSeqBy([i \in DOMAIN cols |-> i], {i \in DOMAIN cols : cols[i].name # name})

\* row projected onto the positions keep
Project(row, keep) == [k \in DOMAIN keep |-> row[keep[k]]]

\* C23: after DestroyColumn(T, C) on a store where table T has column C,
\* the rows of T read in the engine's order are the rows it had, in the
\* same order, each projected onto the columns other than C, and every
\* surviving column has the type and the primary-key flag it had.
C23_DestroyColumnPreservesContent ==
    DestroyedExistingColumn =>
        LET T == call.tableName
            old == call.pre.main[T]
            keep == Surviving(old.cols, call.other)
        IN  /\ T \in DOMAIN main
            /\ main[T].rows = [r \in DOMAIN old.rows |-> Project(old.rows[r], keep)]
            /\ CatalogDefinitions(main)[T] =
                   Project(CatalogDefinitions(call.pre.main)[T], keep)

\* C25: DestroyColumn never destroys the table: after DestroyColumn(T, C),
\* for a table T of the catalog that the schema cache lists and any column
\* name C, the catalog still holds T.
C25_DestroyColumnKeepsTable ==
    (call.op = "DestroyColumn"
         /\ call.tableName \in DOMAIN call.pre.tables
         /\ call.tableName \in DOMAIN call.pre.main) =>
        call.tableName \in DOMAIN main

\* C26: DestroyColumn(T, C) changes nothing outside T: every other table
\* of the catalog, a table named T_ included, has after the call the
\* definition and rows it had before, and no table has appeared.
C26_DestroyColumnFrame ==
    call.op = "DestroyColumn" =>
        /\ DOMAIN main \ {call.tableName} = DOMAIN call.pre.main \ {call.tableName}
        /\ \A n \in DOMAIN call.pre.main \ {call.tableName} :
               main[n] = call.pre.main[n]

\* C28: when DestroyColumn returns, whatever its statements returned, the
\* connection is in no transaction and holds no temporary table: the next
\* operation starts outside any transaction.
C28_DestroyColumnLeavesNoTransaction ==
    call.op = "DestroyColumn" =>
        /\ ~inTxn
        /\ TempName(call.tableName) \notin DOMAIN temp
        /\ temp = EmptyCatalog

\* a rebuild has begun its transaction and created its temporary table,
\* one of its later statements has failed, and the call has returned
C28_Witness ==
    /\ call.op = "DestroyColumn"
    /\ Len(call.errs) = 8
    /\ call.errs[1] = "" /\ call.errs[2] = ""
    /\ call.errs[5] # ""
    /\ call.errs[7] = "" /\ call.errs[8] = ""
    /\ ~inTxn /\ temp = EmptyCatalog

\* the steps of an installation, in the order prescribed
InstallSteps ==
    <<"release connection", "open file", "write blob", "set file size",
      "close file", "open connection", "refresh cache">>

\* the steps that can fail, each with the message that reports it
InstallFailures ==
    [step \in {"open file", "write blob", "set file size", "open connection"} |->
        CASE step = "open file" -> "open failed"
          [] step = "write blob" -> "short write"
          [] step = "set file size" -> "resize failed"
          [] OTHER -> "reopen failed"]

\* C24: InstallSnapshot does its steps in the prescribed order: connection
\* released, file opened, blob written, file size set, file closed,
\* connection opened, cache refreshed; or it stops at a step that failed
\* (open, write, resize or reopen), having done the steps before it in
\* that order, and reports that step's own message.
C24_InstallSnapshotSequence ==
    call.op = "InstallSnapshot" =>
        \/ call.did = InstallSteps /\ call.reported = ""
        \/ \E k \in DOMAIN InstallSteps :
               /\ InstallSteps[k] \in DOMAIN InstallFailures
               /\ call.did = SubSeq(InstallSteps, 1, k)
               /\ call.reported = InstallFailures[InstallSteps[k]]

\* C27: whenever a call closes a connection (Open on a Database that is
\* open, an Open that fails, the destructor), no statement compiled on that
\* connection is alive at that moment: each has been finalized before.
C27_NoStatementOutlivesConnection ==
    \A k \in DOMAIN call.did :
        call.did[k].op = "sqlite3_close" =>
            \A st \in LiveBefore(LiveAtEntry(call.pre.opened), call.did, k) :
                st.conn # call.did[k].conn

=============================================================================
